---------------------------- MODULE Spec2Model ----------------------------
(***************************************************************************)
(* Customer-support pipeline (orchestrator.py, app.py): fetch mail,        *)
(* classify each message with a language model, append a page per message  *)
(* to the Notion database, summarise the database and post a digest to     *)
(* Slack.  The pipeline is started by the daily scheduled job and by the   *)
(* /api/run-pipeline endpoint; /api/fetch only fetches.                    *)
(*                                                                         *)
(* Text is a sequence of tokens: the three labels, a space, a newline and  *)
(* words.  Python values that may be absent are sequences of length 0 or 1.*)
(***************************************************************************)
EXTENDS Integers, Sequences, FiniteSets, TLC

VARIABLES
    client,          \* orchestrator.client is not None (OPENAI_API_KEY set)
    notion,          \* orchestrator.notion and NOTION_DATABASE_ID are set
    webhook,         \* SLACK_WEBHOOK_URL is set
    mailbox,         \* the messages of the Gmail mailbox, newest first
    store,           \* the pages of the Notion database, in query order
    pc,              \* where each trigger's handler stands
    hours_back,      \* run_full_pipeline's argument
    emails,          \* run_full_pipeline's local `emails`
    idx,             \* position of the step-2 loop in `emails`
    processed,       \* run_full_pipeline's local `processed`
    result,          \* what run_full_pipeline returned (or that it raised)
    last_run_info,   \* app.last_run_info
    req,             \* the `hours` value of each endpoint's current request
    response,        \* HTTP status each endpoint answered with (0: none yet)
    calls,           \* external calls made while serving the current request
    wrote,           \* the current request assigned to last_run_info
    attempts,        \* ids of the messages step 2 has attempted, in order
    appended,        \* how many add_to_notion calls returned True in this run
    caught,          \* how often the handler of line 369 ran in this run
    created,         \* per title, how many add_to_notion calls returned True
    started,         \* pipeline runs started so far
    replies,         \* the texts the completion endpoint may answer with
    llm_content,     \* a completion given to classify_issue on its own
    classified,      \* what classify_issue made of it
    query_results,   \* a query result given to get_notion_summary on its own
    summarized,      \* what get_notion_summary made of it
    notified,        \* what send_slack_digest did with a summary
    fetched          \* what fetch_customer_emails made of the mailbox on its own

vars == <<client, notion, webhook, mailbox, store, pc, hours_back, emails, idx,
          processed, result, last_run_info, req, response, calls, wrote,
          attempts, appended, caught, created, started, replies, llm_content,
          classified, query_results, summarized, notified, fetched>>

---------------------------------------------------------------------------
(* Bounds of the model *)

MaxRuns == 2        \* pipeline runs per behaviour
MaxMailbox == 1     \* messages in the mailbox of the service model
MaxText == 4        \* tokens of a completion given to classify_issue
MaxPages == 6       \* pages of a query result given to get_notion_summary
MaxFetch == 3       \* messages of a mailbox given to fetch_customer_emails

(* Program constants *)

maxResults == 50    \* messages().list(maxResults=50)
BodyMax == 500      \* body[:500]
TitleMax == 100     \* subject[:100]
DescriptionMax == 2000
MinHours == 1
MaxHours == 168
DefaultHours == 24  \* data.get('hours', 24)
PipelineDefaultHours == 168   \* run_full_pipeline(hours_back=168)
DisplayMax == 5     \* summary['high_priority'][:5]
HTTP_OK == 200

Min(a, b) == IF a < b THEN a ELSE b

Take(s, n) == SubSeq(s, 1, Min(Len(s), n))

---------------------------------------------------------------------------
(* Text *)

SP == " "
NL == "\n"
Whitespace == {SP, NL}

CategoryLabels == {"Category:", "category:"}
PriorityLabels == {"Priority:", "priority:"}
SummaryLabels == {"Summary:", "summary:"}

Other == <<"Other">>
Medium == <<"Medium">>
High == <<"High">>

Categories == {<<"Hardware">>, <<"Software">>, <<"Network">>, <<"UserError">>,
               <<"Security">>, <<"Other">>}
Priorities == {<<"High">>, <<"Medium">>, <<"Low">>}

RECURSIVE LStrip(_)
LStrip(s) == IF s # <<>> /\ Head(s) \in Whitespace THEN LStrip(Tail(s)) ELSE s

RECURSIVE RStrip(_)
RStrip(s) ==
    IF s # <<>> /\ s[Len(s)] \in Whitespace THEN RStrip(SubSeq(s, 1, Len(s) - 1))
    ELSE s

\* str.strip()
Strip(s) == RStrip(LStrip(s))

\* The text up to the first newline: what `.+` matches from the head of s.
RECURSIVE UpToNewline(_)
UpToNewline(s) ==
    IF s = <<>> \/ Head(s) = NL THEN <<>>
    ELSE <<Head(s)>> \o UpToNewline(Tail(s))

\* re.search(r'<Label>\s*(.+)', s, re.IGNORECASE): the leftmost label that
\* is followed, after any whitespace (newlines included), by a character;
\* group(1) runs from that character to the end of its line.  The result is
\* <<>> when nothing matches and <<group>> otherwise.
RECURSIVE Search(_, _)
Search(labels, s) ==
    IF s = <<>> THEN <<>>
    ELSE IF Head(s) \in labels /\ LStrip(Tail(s)) # <<>>
         THEN <<UpToNewline(LStrip(Tail(s)))>>
         ELSE Search(labels, Tail(s))

---------------------------------------------------------------------------
(* classify_issue *)

DefaultClassification(subject) ==
    [category |-> Other, priority |-> Medium, summary |-> subject]

\* An outcome of client.chat.completions.create followed by
\* response.choices[0].message.content.strip(): the call or the attribute
\* access raises, or the stripped content is a text.
Raises == [raised |-> TRUE, content |-> <<>>]
Completion(text) == [raised |-> FALSE, content |-> text]

\* Lines 166-177: parse the three fields, each with its own default.
ParseFields(subject, content) ==
    LET stripped == Strip(content)
        category_match == Search(CategoryLabels, stripped)
        priority_match == Search(PriorityLabels, stripped)
        summary_match == Search(SummaryLabels, stripped)
    IN  [category |-> IF category_match # <<>> THEN Strip(category_match[1]) ELSE Other,
         priority |-> IF priority_match # <<>> THEN Strip(priority_match[1]) ELSE Medium,
         summary |-> IF summary_match # <<>> THEN Strip(summary_match[1]) ELSE subject]

\* classify_issue(subject, body).  `value` is the dict returned, `llm_calls`
\* the number of completion requests made; the function has no path that
\* lets an exception out.
classify_issue(hasClient, subject, llm) ==
    IF ~hasClient
    THEN [raised |-> FALSE, value |-> DefaultClassification(subject), llm_calls |-> 0]
    ELSE IF llm.raised
    THEN [raised |-> FALSE, value |-> DefaultClassification(subject), llm_calls |-> 1]
    ELSE [raised |-> FALSE, value |-> ParseFields(subject, llm.content), llm_calls |-> 1]

---------------------------------------------------------------------------
(* add_to_notion *)

NoSubject == <<"No", SP, "Subject">>
NoContentLen == 10      \* len('No content')

\* The page add_to_notion builds (lines 197-221).  A text property is the
\* list of its rich-text items, a select property the list holding its
\* option; the description is kept as its length.
Page(email, classification) ==
    [Title |-> <<Take(IF email.subject # <<>> THEN email.subject ELSE NoSubject, TitleMax)>>,
     Description |-> Min(IF email.body # 0 THEN email.body ELSE NoContentLen, DescriptionMax),
     RootCause |-> <<classification.category>>,
     Priority |-> <<classification.priority>>,
     Status |-> <<"New">>]

add_to_notion_Unhandled(configured, email, classification, create) ==
    IF ~configured
    THEN [raised |-> FALSE, ret |-> FALSE, creates |-> 0, pages |-> <<>>]
    ELSE IF create = "ok"
    THEN [raised |-> FALSE, ret |-> TRUE, creates |-> 1,
          pages |-> <<Page(email, classification)>>]
    ELSE [raised |-> TRUE, ret |-> FALSE, creates |-> 1, pages |-> <<>>]

\* add_to_notion(email, classification) against a store answering `create`
\* ("ok" or "raise").  `creates` counts notion.pages.create calls, `pages`
\* is what the store gained.
add_to_notion(configured, email, classification, create) ==
    IF ~configured
    THEN [raised |-> FALSE, ret |-> FALSE, creates |-> 0, pages |-> <<>>]
    ELSE IF create = "ok"
    THEN [raised |-> FALSE, ret |-> TRUE, creates |-> 1,
          pages |-> <<Page(email, classification)>>]
    ELSE [raised |-> FALSE, ret |-> FALSE, creates |-> 1, pages |-> <<>>]

---------------------------------------------------------------------------
(* get_notion_summary *)

EmptyDict == [k \in {} |-> 0]

\* d[k] = d.get(k, 0) + 1
Increment(d, k) ==
    IF k \in DOMAIN d THEN [d EXCEPT ![k] = @ + 1] ELSE d @@ (k :> 1)

ErrorSummary == [error |-> TRUE]

CountPage_Nested(summary, page) ==
    LET root_cause_obj == page.RootCause
        priority_obj == page.Priority
        title_array == page.Title
    IN  [total |-> summary.total,
         by_category |-> IF root_cause_obj # <<>>
                         THEN Increment(summary.by_category, root_cause_obj[1])
                         ELSE summary.by_category,
         by_priority |-> IF root_cause_obj # <<>> /\ priority_obj # <<>>
                         THEN Increment(summary.by_priority, priority_obj[1])
                         ELSE summary.by_priority,
         high_priority |-> IF priority_obj # <<>> /\ priority_obj[1] = High
                              /\ title_array # <<>>
                           THEN Append(summary.high_priority, title_array[1])
                           ELSE summary.high_priority]

\* One iteration of the loop of lines 247-267.
CountPage(summary, page) ==
    LET root_cause_obj == page.RootCause
        priority_obj == page.Priority
        title_array == page.Title
    IN  [total |-> summary.total,
         by_category |-> IF root_cause_obj # <<>>
                         THEN Increment(summary.by_category, root_cause_obj[1])
                         ELSE summary.by_category,
         by_priority |-> IF priority_obj # <<>>
                         THEN Increment(summary.by_priority, priority_obj[1])
                         ELSE summary.by_priority,
         high_priority |-> IF priority_obj # <<>> /\ priority_obj[1] = High
                              /\ title_array # <<>>
                           THEN Append(summary.high_priority, title_array[1])
                           ELSE summary.high_priority]

\* The loop of lines 247-267: each page is counted into the summary before
\* the next one is looked at, and the summary keeps its four keys.
RECURSIVE CountPages(_, _)
CountPages(summary, results) ==
    IF results = <<>> THEN summary
    ELSE LET counted == CountPage(summary, Head(results))
         IN  CASE DOMAIN counted = DOMAIN summary -> CountPages(counted, Tail(results))

\* get_notion_summary() over the pages the query returns; `query` is "ok"
\* or "raise".
get_notion_summary(configured, query, results) ==
    IF ~configured THEN [raised |-> FALSE, value |-> ErrorSummary, queries |-> 0]
    ELSE IF query # "ok"
    THEN [raised |-> FALSE, value |-> ErrorSummary, queries |-> 1]
    ELSE [raised |-> FALSE, queries |-> 1,
          value |-> CountPages([total |-> Len(results), by_category |-> EmptyDict,
                                by_priority |-> EmptyDict, high_priority |-> <<>>],
                               results)]

---------------------------------------------------------------------------
(* send_slack_digest *)

\* The text posted (lines 287-313): the counts and the first five titles.
DigestText(summary) ==
    [total |-> summary.total,
     category_lines |-> summary.by_category,
     priority_lines |-> summary.by_priority,
     high_priority_lines |-> Take(summary.high_priority, DisplayMax)]

NoMessage == [total |-> 0, category_lines |-> EmptyDict, priority_lines |-> EmptyDict,
              high_priority_lines |-> <<>>]
NotGiven == [none |-> TRUE]

send_slack_digest_AnyStatus(configured, summary, post) ==
    IF ~configured
    THEN [raised |-> FALSE, ret |-> FALSE, posts |-> 0, message |-> NoMessage,
          given |-> NotGiven, post |-> 0]
    ELSE IF DOMAIN summary = {} \/ "error" \in DOMAIN summary
    THEN [raised |-> FALSE, ret |-> FALSE, posts |-> 0, message |-> NoMessage,
          given |-> NotGiven, post |-> 0]
    ELSE [raised |-> FALSE, ret |-> (post # 0), posts |-> 1,
          message |-> DigestText(summary), given |-> NotGiven, post |-> 0]

\* send_slack_digest(summary) against a webhook answering `post`: a status
\* code, or 0 when requests.post raises.  The summary is the empty dict, an
\* error summary or a summary of get_notion_summary.
send_slack_digest(configured, summary, post) ==
    IF ~configured
    THEN [raised |-> FALSE, ret |-> FALSE, posts |-> 0, message |-> NoMessage,
          given |-> NotGiven, post |-> 0]
    ELSE IF DOMAIN summary = {} \/ "error" \in DOMAIN summary
    THEN [raised |-> FALSE, ret |-> FALSE, posts |-> 0, message |-> NoMessage,
          given |-> NotGiven, post |-> 0]
    ELSE [raised |-> FALSE, ret |-> (post = HTTP_OK), posts |-> 1,
          message |-> DigestText(summary), given |-> NotGiven, post |-> 0]

---------------------------------------------------------------------------
(* authenticate_gmail, fetch_customer_emails *)

\* A mailbox message: its Gmail id, its Subject header, the length of its
\* decoded body, its age in hours, and whether messages().get and the
\* extraction of lines 85-112 succeed on it.
MailMessage(id, subject, body, age, readable) ==
    [id |-> id, subject |-> subject, body |-> body, age |-> age, readable |-> readable]

ListMessages_Uncapped(box, hours) == SelectSeq(box, LAMBDA m : m.age < hours)

\* messages().list(q='after:<now - hours_back>', maxResults=50): the
\* messages newer than the cutoff, at most maxResults of them.
ListMessages(box, hours) ==
    Take(SelectSeq(box, LAMBDA m : m.age < hours), maxResults)

\* Lines 106-112: the dict appended for one message.
Email(m) == [id |-> m.id, subject |-> m.subject, body |-> Min(m.body, BodyMax)]

\* Lines 83-115: a message whose extraction raises is skipped.
Extract(messages) ==
    LET extracted == SelectSeq(messages, LAMBDA m : m.readable)
    IN  [i \in 1..Len(extracted) |-> Email(extracted[i])]

fetch_customer_emails_NoInnerTry(box, hours, list) ==
    IF list # "ok" \/ \E i \in DOMAIN ListMessages(box, hours) :
                         ~ListMessages(box, hours)[i].readable
    THEN [raised |-> FALSE, value |-> <<>>, lists |-> 1, gets |-> 0]
    ELSE [raised |-> FALSE, value |-> Extract(ListMessages(box, hours)),
          lists |-> 1, gets |-> Len(ListMessages(box, hours))]

\* fetch_customer_emails(service, hours_back); `list` is "ok" or "raise".
fetch_customer_emails(box, hours, list) ==
    IF list # "ok"
    THEN [raised |-> FALSE, value |-> <<>>, lists |-> 1, gets |-> 0]
    ELSE [raised |-> FALSE, value |-> Extract(ListMessages(box, hours)),
          lists |-> 1, gets |-> Len(ListMessages(box, hours))]

---------------------------------------------------------------------------
(* The `hours` value of a request body *)

\* A JSON value as Python sees it.  Numbers are held in tenths, so that
\* 1.5 is PyFloat(15); NaN is the float json.loads makes of the literal NaN.
PyInt(n) == [t |-> "int", tenths |-> 10 * n]
PyFloat(tenths) == [t |-> "float", tenths |-> tenths]
PyBool(b) == [t |-> "bool", tenths |-> IF b THEN 10 ELSE 0]
PyNaN == [t |-> "nan", tenths |-> 0]
PyStr == [t |-> "str", tenths |-> 0]
PyNone == [t |-> "NoneType", tenths |-> 0]

\* isinstance(hours, (int, float)): bool is a subclass of int, NaN a float.
IsIntOrFloat(h) == h.t \in {"int", "float", "bool", "nan"}

\* hours < n and hours > n; every comparison with NaN is False.
Less(h, n) == h.t # "nan" /\ h.tenths < 10 * n
Greater(h, n) == h.t # "nan" /\ h.tenths > 10 * n

\* The test of app.py lines 100 and 164.
Rejected(h) == ~IsIntOrFloat(h) \/ Less(h, MinHours) \/ Greater(h, MaxHours)

\* int(hours): raises ValueError on NaN, truncates otherwise.
IntRaises(h) == h.t = "nan"
ToInt(h) == h.tenths \div 10

\* data.get('hours', 24) where data is the body: <<>> when it has no hours.
Hours(data) == IF data = <<>> THEN PyInt(DefaultHours) ELSE data[1]

---------------------------------------------------------------------------
(* The service: state *)

Runners == {"manual", "scheduled"}      \* run_pipeline, scheduled_job
Requesters == Runners \cup {"fetch"}    \* and fetch_emails

ZeroCalls == [auth |-> 0, list |-> 0, get |-> 0, classify |-> 0, llm |-> 0,
              append |-> 0, create |-> 0, query |-> 0, digest |-> 0, post |-> 0]

NoResult == [raised |-> FALSE, value |-> [none |-> TRUE]]
NoRequest == [t |-> "none", tenths |-> 0]

\* What the language model may answer in the service model.
WellFormed == <<"Category:", SP, "Network", NL, "Priority:", SP, "High", NL,
                "Summary:", SP, "outage">>
Unexpected == <<"Category:", SP, "Banana", NL, "Priority:", SP, "Urgent">>
LLMOutcomes == {Raises} \cup {Completion(t) : t \in replies}

\* The `hours` a request may carry: none, and JSON values on each side of
\* every test.
HoursInputs ==
    {<<>>, <<PyInt(0)>>, <<PyInt(MaxHours)>>, <<PyInt(MaxHours + 1)>>,
     <<PyFloat(5)>>, <<PyFloat(15)>>, <<PyBool(TRUE)>>, <<PyBool(FALSE)>>,
     <<PyNaN>>, <<PyStr>>, <<PyNone>>}

\* The bodies the dashboard posts to /api/run-pipeline: none, and a window
\* too short to hold a message.
ServiceInputs == {<<>>, <<PyFloat(15)>>}

IdText == <<"1", "2", "3", "4">>

\* The mailbox of the service model: message k is 2 + 28 (k - 1) hours old,
\* so that a 24-hour window holds the first message only and a 168-hour
\* window holds them all; odd messages have a body longer than BodyMax and
\* even ones an empty body.
ServiceMailbox(n, unreadable) ==
    [k \in 1..n |-> MailMessage(k, <<"Ticket", SP, IdText[k]>>,
                                IF k % 2 = 1 THEN BodyMax + 100 ELSE 0,
                                2 + 28 * (k - 1), k \notin unreadable)]

\* The state of app.py and of the handlers before any request.
InitService ==
    /\ store = <<>>
    /\ pc = [r \in Runners |-> "idle"]
    /\ hours_back = [r \in Runners |-> 0]
    /\ emails = [r \in Runners |-> <<>>]
    /\ idx = [r \in Runners |-> 1]
    /\ processed = [r \in Runners |-> 0]
    /\ result = [r \in Runners |-> NoResult]
    /\ last_run_info = [timestamp |-> "None", status |-> "Never run", emails_processed |-> 0]
    /\ req = [q \in Requesters |-> NoRequest]
    /\ response = [q \in Requesters |-> 0]
    /\ calls = [q \in Requesters |-> ZeroCalls]
    /\ wrote = [q \in Requesters |-> FALSE]
    /\ attempts = [r \in Runners |-> <<>>]
    /\ appended = [r \in Runners |-> 0]
    /\ caught = [r \in Runners |-> 0]
    /\ created = EmptyDict

\* Nothing has been given to the three functions on their own.
NoClassification == [given |-> Raises, raised |-> FALSE, value |-> [none |-> TRUE],
                     llm_calls |-> 0]
NoSummary == [raised |-> FALSE, value |-> [none |-> TRUE], queries |-> 0]
NoDigest == [raised |-> FALSE, ret |-> FALSE, posts |-> 0, message |-> NoMessage,
             given |-> NotGiven, post |-> 0]

NoFetch == [raised |-> FALSE, value |-> <<>>, lists |-> 0, gets |-> 0,
            hours |-> 0, list |-> "none"]

InitAlone ==
    /\ llm_content = <<>>
    /\ classified = NoClassification
    /\ query_results = <<>>
    /\ summarized = NoSummary
    /\ notified = NoDigest
    /\ fetched = NoFetch

Init ==
    /\ client \in BOOLEAN
    /\ notion \in BOOLEAN
    /\ webhook \in BOOLEAN
    /\ \E unreadable \in {{}, {1}} : mailbox = ServiceMailbox(MaxMailbox, unreadable)
    /\ replies \in {{WellFormed}, {Unexpected}}
    /\ started = 0
    /\ InitService
    /\ InitAlone

---------------------------------------------------------------------------
(* app.py: the triggers *)

\* What a trigger does when it calls run_full_pipeline(hours).
StartRun(r, hours) ==
    /\ started < MaxRuns
    /\ started' = started + 1
    /\ pc' = [pc EXCEPT ![r] = "step1"]
    /\ hours_back' = [hours_back EXCEPT ![r] = hours]
    /\ emails' = [emails EXCEPT ![r] = <<>>]
    /\ idx' = [idx EXCEPT ![r] = 1]
    /\ processed' = [processed EXCEPT ![r] = 0]
    /\ result' = [result EXCEPT ![r] = NoResult]
    /\ attempts' = [attempts EXCEPT ![r] = <<>>]
    /\ appended' = [appended EXCEPT ![r] = 0]
    /\ caught' = [caught EXCEPT ![r] = 0]

RunLocals == <<hours_back, emails, idx, processed, result, attempts, appended, caught,
               started>>
Config == <<client, notion, webhook, mailbox, replies>>
Alone == <<llm_content, classified, query_results, summarized, notified, fetched>>

\* scheduled_job, up to its call run_full_pipeline() (lines 55-60).
scheduled_job ==
    /\ pc["scheduled"] = "idle"
    /\ StartRun("scheduled", PipelineDefaultHours)
    /\ calls' = [calls EXCEPT !["scheduled"] = ZeroCalls]
    /\ wrote' = [wrote EXCEPT !["scheduled"] = FALSE]
    /\ UNCHANGED <<Config, Alone, store, created, last_run_info, req, response>>

\* run_pipeline, up to its call run_full_pipeline(int(hours)) (lines
\* 155-171): a rejected request is answered 400; int(hours) raising is
\* caught by the handler of line 186.
run_pipeline(data) ==
    LET hours == Hours(data) IN
    /\ pc["manual"] = "idle"
    /\ req' = [req EXCEPT !["manual"] = hours]
    /\ calls' = [calls EXCEPT !["manual"] = ZeroCalls]
    /\ UNCHANGED <<Config, Alone, store, created>>
    /\ IF Rejected(hours)
       THEN /\ response' = [response EXCEPT !["manual"] = 400]
            /\ wrote' = [wrote EXCEPT !["manual"] = FALSE]
            /\ UNCHANGED <<pc, RunLocals, last_run_info>>
       ELSE IF IntRaises(hours)
       THEN /\ last_run_info' = [last_run_info EXCEPT !.status = "Error"]
            /\ wrote' = [wrote EXCEPT !["manual"] = TRUE]
            /\ response' = [response EXCEPT !["manual"] = 500]
            /\ UNCHANGED <<pc, RunLocals>>
       ELSE /\ StartRun("manual", ToInt(hours))
            /\ response' = [response EXCEPT !["manual"] = 0]
            /\ wrote' = [wrote EXCEPT !["manual"] = FALSE]
            /\ UNCHANGED last_run_info

\* fetch_emails (lines 92-124), the whole handler.
fetch_emails(data) ==
    LET hours == Hours(data) IN
    /\ req' = [req EXCEPT !["fetch"] = hours]
    /\ wrote' = [wrote EXCEPT !["fetch"] = FALSE]
    /\ UNCHANGED <<Config, Alone, store, created, pc, RunLocals, last_run_info>>
    /\ IF Rejected(hours)
       THEN /\ response' = [response EXCEPT !["fetch"] = 400]
            /\ calls' = [calls EXCEPT !["fetch"] = ZeroCalls]
       ELSE \E auth \in {"ok", "raise"}, list \in {"ok", "raise"} :
            IF auth = "raise" \/ IntRaises(hours)
            THEN /\ response' = [response EXCEPT !["fetch"] = 500]
                 /\ calls' = [calls EXCEPT !["fetch"] = [ZeroCalls EXCEPT !.auth = 1]]
            ELSE LET f == fetch_customer_emails(mailbox, ToInt(hours), list) IN
                 /\ response' = [response EXCEPT !["fetch"] = IF f.raised THEN 500 ELSE HTTP_OK]
                 /\ calls' = [calls EXCEPT !["fetch"] =
                                [ZeroCalls EXCEPT !.auth = 1, !.list = f.lists, !.get = f.gets]]

---------------------------------------------------------------------------
(* orchestrator.py: run_full_pipeline *)

Bump(q, c) == [calls EXCEPT ![q] = [k \in DOMAIN ZeroCalls |-> calls[q][k] + c[k]]]

Returned(value) == [raised |-> FALSE, value |-> value]
Raised == [raised |-> TRUE, value |-> [none |-> TRUE]]

FetchFailed_Propagates == Raised

\* The dict returned by the handler of lines 349-356.
FetchFailed ==
    Returned([emails_found |-> 0, emails_processed |-> 0, digest_sent |-> FALSE,
              error |-> TRUE])

Step1_Continues(r) ==
    /\ pc[r] = "step1"
    /\ \E auth \in {"ok", "raise"}, list \in {"ok", "raise"} :
          LET f == fetch_customer_emails(mailbox, hours_back[r], list) IN
          /\ emails' = [emails EXCEPT ![r] = IF auth = "raise" THEN <<>> ELSE f.value]
          /\ pc' = [pc EXCEPT ![r] = "step2"]
          /\ calls' = Bump(r, [ZeroCalls EXCEPT !.auth = 1,
                                 !.list = IF auth = "raise" THEN 0 ELSE f.lists,
                                 !.get = IF auth = "raise" THEN 0 ELSE f.gets])
          /\ UNCHANGED result
    /\ UNCHANGED <<Config, Alone, store, created, hours_back, idx, processed,
                   last_run_info, req, response, wrote, attempts, appended, caught,
                   started>>

\* Step 1 (lines 343-356): authenticate and fetch; an exception returns at
\* once with zero counts and the error.
Step1(r) ==
    /\ pc[r] = "step1"
    /\ \E auth \in {"ok", "raise"}, list \in {"ok", "raise"} :
          LET f == fetch_customer_emails(mailbox, hours_back[r], list) IN
          IF auth = "raise" \/ f.raised
          THEN /\ result' = [result EXCEPT ![r] = FetchFailed]
               /\ pc' = [pc EXCEPT ![r] = "returned"]
               /\ calls' = Bump(r, [ZeroCalls EXCEPT !.auth = 1,
                                      !.list = IF auth = "raise" THEN 0 ELSE f.lists])
               /\ UNCHANGED emails
          ELSE /\ emails' = [emails EXCEPT ![r] = f.value]
               /\ pc' = [pc EXCEPT ![r] = "step2"]
               /\ calls' = Bump(r, [ZeroCalls EXCEPT !.auth = 1, !.list = f.lists,
                                      !.get = f.gets])
               /\ UNCHANGED result
    /\ UNCHANGED <<Config, Alone, store, created, hours_back, idx, processed,
                   last_run_info, req, response, wrote, attempts, appended, caught,
                   started>>

ProcessEmail_Upsert(r) ==
    /\ pc[r] = "step2"
    /\ idx[r] <= Len(emails[r])
    /\ \E llm \in LLMOutcomes, create \in {"ok", "raise"} :
          LET email == emails[r][idx[r]]
              c == classify_issue(client, email.subject, llm)
              held == \E i \in DOMAIN store : store[i].Title = Page(email, c.value).Title
              a == IF held
                   THEN [raised |-> FALSE, ret |-> TRUE, creates |-> 0, pages |-> <<>>]
                   ELSE add_to_notion(notion, email, c.value, create)
          IN  /\ store' = store \o a.pages
              /\ processed' = [processed EXCEPT ![r] = IF a.ret THEN @ + 1 ELSE @]
              /\ appended' = [appended EXCEPT ![r] = IF a.ret THEN @ + 1 ELSE @]
              /\ created' = IF a.ret THEN Increment(created, <<email.subject>>) ELSE created
              /\ caught' = caught
              /\ attempts' = [attempts EXCEPT ![r] = Append(@, email.id)]
              /\ calls' = Bump(r, [ZeroCalls EXCEPT !.classify = 1, !.llm = c.llm_calls,
                                     !.append = 1, !.create = a.creates])
    /\ idx' = [idx EXCEPT ![r] = @ + 1]
    /\ UNCHANGED <<Config, Alone, pc, hours_back, emails, result, last_run_info, req,
                   response, wrote, started>>

\* Step 2 (lines 361-370), one iteration of the loop: classify the message
\* and add it to Notion; an exception of either is caught and the loop goes
\* on with the next message.
ProcessEmail(r) ==
    /\ pc[r] = "step2"
    /\ idx[r] <= Len(emails[r])
    /\ \E llm \in LLMOutcomes, create \in {"ok", "raise"} :
          LET email == emails[r][idx[r]]
              c == classify_issue(client, email.subject, llm)
              a == IF c.raised
                   THEN [raised |-> FALSE, ret |-> FALSE, creates |-> 0, pages |-> <<>>]
                   ELSE add_to_notion(notion, email, c.value, create)
          IN  /\ store' = store \o a.pages
              /\ processed' = [processed EXCEPT ![r] =
                                  IF ~c.raised /\ ~a.raised /\ a.ret THEN @ + 1 ELSE @]
              /\ appended' = [appended EXCEPT ![r] = IF a.ret THEN @ + 1 ELSE @]
              /\ created' = IF a.ret THEN Increment(created, <<email.subject>>) ELSE created
              /\ caught' = [caught EXCEPT ![r] = IF c.raised \/ a.raised THEN @ + 1 ELSE @]
              /\ attempts' = [attempts EXCEPT ![r] = Append(@, email.id)]
              /\ calls' = Bump(r, [ZeroCalls EXCEPT !.classify = 1, !.llm = c.llm_calls,
                                     !.append = IF c.raised THEN 0 ELSE 1,
                                     !.create = a.creates])
    /\ idx' = [idx EXCEPT ![r] = @ + 1]
    /\ UNCHANGED <<Config, Alone, pc, hours_back, emails, result, last_run_info, req,
                   response, wrote, started>>

Step3_AlwaysNotifies(r) ==
    /\ pc[r] = "step2"
    /\ idx[r] > Len(emails[r])
    /\ \E query \in {"ok", "raise"}, post \in {HTTP_OK, 500, 0} :
          LET s == get_notion_summary(notion, query, store)
              d == send_slack_digest(webhook, s.value, post)
              digest_sent == IF d.raised THEN FALSE ELSE d.ret
          IN  /\ result' = [result EXCEPT ![r] =
                    Returned([emails_found |-> Len(emails[r]),
                              emails_processed |-> processed[r],
                              digest_sent |-> digest_sent])]
              /\ calls' = Bump(r, [ZeroCalls EXCEPT !.query = s.queries,
                                     !.digest = 1,
                                     !.post = d.posts])
    /\ pc' = [pc EXCEPT ![r] = "returned"]
    /\ UNCHANGED <<Config, Alone, store, created, hours_back, emails, idx, processed,
                   last_run_info, req, response, wrote, attempts, appended, caught,
                   started>>

\* Step 3 (lines 374-394), after the loop: summarise the store, post the
\* digest unless the summary is empty or an error, and return the counts.
Step3(r) ==
    /\ pc[r] = "step2"
    /\ idx[r] > Len(emails[r])
    /\ \E query \in {"ok", "raise"}, post \in {HTTP_OK, 500, 0} :
          LET s == get_notion_summary(notion, query, store)
              usable == ~s.raised /\ DOMAIN s.value # {} /\ "error" \notin DOMAIN s.value
              d == IF usable THEN send_slack_digest(webhook, s.value, post) ELSE NoDigest
              digest_sent == IF d.raised THEN FALSE ELSE d.ret
          IN  /\ result' = [result EXCEPT ![r] =
                    Returned([emails_found |-> Len(emails[r]),
                              emails_processed |-> processed[r],
                              digest_sent |-> digest_sent])]
              /\ calls' = Bump(r, [ZeroCalls EXCEPT !.query = s.queries,
                                     !.digest = IF usable THEN 1 ELSE 0,
                                     !.post = d.posts])
    /\ pc' = [pc EXCEPT ![r] = "returned"]
    /\ UNCHANGED <<Config, Alone, store, created, hours_back, emails, idx, processed,
                   last_run_info, req, response, wrote, attempts, appended, caught,
                   started>>

\* run_full_pipeline has returned to its trigger (app.py lines 61-69 and
\* 173-192): last_run_info is replaced, or its status alone is set when the
\* call raised.
Finish(r) ==
    /\ pc[r] = "returned"
    /\ pc' = [pc EXCEPT ![r] = "idle"]
    /\ wrote' = [wrote EXCEPT ![r] = TRUE]
    /\ IF result[r].raised
       THEN /\ last_run_info' = [last_run_info EXCEPT !.status = "Error"]
            /\ response' = [response EXCEPT ![r] = IF r = "manual" THEN 500 ELSE @]
       ELSE /\ last_run_info' =
                 [timestamp |-> "now",
                  status |-> IF r = "manual" THEN "Success" ELSE "Success (Scheduled)",
                  emails_processed |-> result[r].value.emails_processed]
            /\ response' = [response EXCEPT ![r] = IF r = "manual" THEN HTTP_OK ELSE @]
    /\ UNCHANGED <<Config, Alone, store, created, RunLocals, req, calls>>

Next ==
    \/ scheduled_job
    \/ \E data \in ServiceInputs : run_pipeline(data)
    \/ \E r \in Runners : Step1(r)
    \/ \E r \in Runners : ProcessEmail(r)
    \/ \E r \in Runners : Step3(r)
    \/ \E r \in Runners : Finish(r)

Spec == Init /\ [][Next]_vars

\* The two endpoints that validate `hours`, given every kind of value, with
\* the runs the accepted requests start.
NextBoundary ==
    \/ \E data \in HoursInputs : run_pipeline(data)
    \/ \E data \in HoursInputs : fetch_emails(data)
    \/ \E r \in Runners : Step1(r)
    \/ \E r \in Runners : ProcessEmail(r)
    \/ \E r \in Runners : Step3(r)
    \/ \E r \in Runners : Finish(r)

InitBoundary == Init /\ client /\ notion /\ webhook

SpecBoundary == InitBoundary /\ [][NextBoundary]_vars

\* A mailbox of n fresh messages with one subject and no body, of which
\* those of `unreadable` cannot be extracted.
CapMailbox(n, unreadable) ==
    [k \in 1..n |-> MailMessage(k, <<"Ticket">>, 0, 1, k \notin unreadable)]

\* Mailbox sizes on each side of maxResults.
CapSizes == {0, 1, maxResults - 1, maxResults, maxResults + 1, maxResults + 2}

\* One scheduled run over a mailbox as large as the list call's cap, with a
\* completion endpoint that is down: every completion request raises.
InitCap ==
    /\ client \in BOOLEAN
    /\ notion \in BOOLEAN
    /\ webhook = TRUE
    /\ \E n \in CapSizes, unreadable \in {{}, {2}} : mailbox = CapMailbox(n, unreadable)
    /\ replies = {}
    /\ started = MaxRuns - 1
    /\ InitService
    /\ InitAlone

NextCap ==
    \/ scheduled_job
    \/ \E r \in Runners : Step1(r)
    \/ \E r \in Runners : ProcessEmail(r)
    \/ \E r \in Runners : Step3(r)
    \/ \E r \in Runners : Finish(r)

SpecCap == InitCap /\ [][NextCap]_vars

---------------------------------------------------------------------------
(* The functions on their own *)

ServiceIdle ==
    /\ mailbox = <<>>
    /\ replies = {}
    /\ started = 0
    /\ InitService

ServiceVars == <<mailbox, store, pc, hours_back, emails, idx, processed, result,
                 last_run_info, req, response, calls, wrote, attempts, appended,
                 caught, created, started, replies>>

Tokens == {"Category:", "Priority:", "Summary:", "priority:", SP, NL, "Network", "High"}

Texts == UNION {[1..n -> Tokens] : n \in 0..MaxText}

TicketSubject == <<"Ticket">>

\* classify_issue is given every text of at most MaxText tokens, and a
\* completion request that raises.
InitClassify ==
    /\ client \in BOOLEAN
    /\ notion = FALSE
    /\ webhook = FALSE
    /\ llm_content \in Texts
    /\ classified = NoClassification
    /\ query_results = <<>>
    /\ summarized = NoSummary
    /\ notified = NoDigest
    /\ fetched = NoFetch
    /\ ServiceIdle

\* /api/classify (app.py line 139): classify_issue(subject, body).
classify_single ==
    /\ \E llm \in {Raises, Completion(llm_content)} :
          classified' = [given |-> llm] @@ classify_issue(client, TicketSubject, llm)
    /\ UNCHANGED <<ServiceVars, client, notion, webhook, llm_content, query_results,
                   summarized, notified, fetched>>

SpecClassify == InitClassify /\ [][classify_single]_vars

\* The pages a query may return: two high-priority pages with different
\* titles, a page without root cause, and an untitled high-priority page.
PageKinds ==
    {[Title |-> <<<<"a">>>>, RootCause |-> <<<<"Hardware">>>>, Priority |-> <<High>>],
     [Title |-> <<<<"b">>>>, RootCause |-> <<<<"Network">>>>, Priority |-> <<High>>],
     [Title |-> <<<<"c">>>>, RootCause |-> <<>>, Priority |-> <<Medium>>],
     [Title |-> <<>>, RootCause |-> <<<<"Hardware">>>>, Priority |-> <<High>>]}

QueryResults == UNION {[1..n -> PageKinds] : n \in 0..MaxPages}

\* get_notion_summary is given every list of at most MaxPages pages, and
\* send_slack_digest every kind of summary.
InitDigest ==
    /\ client = FALSE
    /\ notion = TRUE
    /\ webhook \in BOOLEAN
    /\ llm_content = <<>>
    /\ classified = NoClassification
    /\ query_results \in QueryResults
    /\ summarized = NoSummary
    /\ notified = NoDigest
    /\ fetched = NoFetch
    /\ ServiceIdle

\* get_notion_summary() over query_results.
Summarize ==
    /\ \E query \in {"ok", "raise"} :
          summarized' = get_notion_summary(notion, query, query_results)
    /\ notified' = NoDigest
    /\ UNCHANGED <<ServiceVars, client, notion, webhook, llm_content, classified,
                   query_results, fetched>>

\* send_slack_digest(summary) with the empty dict, an error summary or the
\* summary just computed.
Notify ==
    /\ \E s \in {EmptyDict, ErrorSummary, summarized.value},
          post \in {HTTP_OK, 500, 0} :
          /\ "none" \notin DOMAIN s
          /\ LET d == send_slack_digest(webhook, s, post) IN
             notified' = [d EXCEPT !.given = s, !.post = IF d.posts = 1 THEN post ELSE 0]
    /\ UNCHANGED <<ServiceVars, client, notion, webhook, llm_content, classified,
                   query_results, summarized, fetched>>

NextDigest == Summarize \/ Notify

SpecDigest == InitDigest /\ [][NextDigest]_vars

\* The messages a mailbox may hold: received inside a 24-hour window, with a
\* body that is empty, exactly BodyMax or longer, readable or not; or
\* received before it.
MessageKinds ==
    [body : {0, BodyMax, BodyMax + 1}, age : {2}, readable : BOOLEAN]
        \cup {[body |-> BodyMax + 1, age |-> 30, readable |-> TRUE]}

FetchMailboxes ==
    UNION {{[k \in 1..n |-> MailMessage(k, <<"Ticket", SP, IdText[k]>>, kinds[k].body,
                                        kinds[k].age, kinds[k].readable)] :
               kinds \in [1..n -> MessageKinds]} : n \in 0..MaxFetch}

\* fetch_customer_emails is given every mailbox of at most MaxFetch messages.
InitFetch ==
    /\ client = FALSE
    /\ notion = FALSE
    /\ webhook = FALSE
    /\ mailbox \in FetchMailboxes
    /\ replies = {}
    /\ started = 0
    /\ InitService
    /\ InitAlone

\* fetch_customer_emails(service, hours) with a list call that answers or
\* raises.
FetchAlone ==
    /\ \E hours \in {DefaultHours, MaxHours}, list \in {"ok", "raise"} :
          fetched' = [hours |-> hours, list |-> list]
                        @@ fetch_customer_emails(mailbox, hours, list)
    /\ UNCHANGED <<ServiceVars, client, notion, webhook, llm_content, classified,
                   query_results, summarized, notified>>

SpecFetch == InitFetch /\ [][FetchAlone]_vars

---------------------------------------------------------------------------
(* Properties of the service *)

\* How far run r has come: step 1, then the loop index, then the return.
Rank(r) ==
    CASE pc[r] = "step1" -> 0
      [] pc[r] = "step2" -> idx[r]
      [] OTHER -> Len(emails[r]) + 2

ResultKeys == {"emails_found", "emails_processed", "digest_sent"}

\* C1: run_full_pipeline never raises and always returns a result with
\* emails_found, emails_processed and digest_sent, whatever its external
\* steps do: no run ends by raising, the loop index never passes the end of
\* `emails`, and every step of a run brings it nearer to its return.
C1_NeverRaises ==
    /\ [](\A r \in Runners :
            /\ ~result[r].raised
            /\ pc[r] = "returned" => ResultKeys \subseteq DOMAIN result[r].value
            /\ idx[r] <= Len(emails[r]) + 1)
    /\ [][\A r \in Runners :
            (pc[r] \in {"step1", "step2"} /\ <<pc[r], idx[r]>> # <<pc'[r], idx'[r]>>)
                => /\ pc'[r] \in {"step2", "returned"}
                   /\ Rank(r)' > Rank(r)]_vars

\* A run in which the model call, the create call and the webhook all
\* failed, and which returned all the same.
C1_Witness ==
    \E r \in Runners :
        /\ pc[r] = "returned"
        /\ result[r].value = [emails_found |-> 1, emails_processed |-> 0,
                              digest_sent |-> FALSE]
        /\ calls[r].llm = 1 /\ calls[r].create = 1 /\ calls[r].post = 1

\* Run r is past step 1 (its counters and result are those of this run).
PastStep1(r) == pc[r] \in {"step2", "returned"} \/ (pc[r] = "idle" /\ result[r] # NoResult)

\* Step 1 raised: authenticate_gmail was called and the list call never made
\* (fetch_customer_emails lets no exception out).
Step1Raised(r) == PastStep1(r) /\ calls[r].auth = 1 /\ calls[r].list = 0

\* C2: a run whose step 1 raised has returned zero counts, digest_sent false
\* and the error, and made no classify call, no create call, no query and
\* no webhook post.
C2_FetchErrorAborts ==
    \A r \in Runners :
        Step1Raised(r) =>
            /\ pc[r] # "step2"
            /\ result[r] = Returned([emails_found |-> 0, emails_processed |-> 0,
                                     digest_sent |-> FALSE, error |-> TRUE])
            /\ calls[r] = [ZeroCalls EXCEPT !.auth = 1]

C2_Witness ==
    \E r \in Runners : pc[r] = "returned" /\ Step1Raised(r)

\* A value outside [1, 168] or not a number; true and false count as 1 and 0.
OutsideRange(h) ==
    \/ h.t \in {"str", "NoneType", "nan"}
    \/ h.t \in {"int", "float", "bool"} /\ (h.tenths < 10 * MinHours \/ h.tenths > 10 * MaxHours)

\* C4 (as claimed): a request to /api/fetch or /api/run-pipeline whose hours
\* value is outside [1, 168] or not a number is answered with the validation
\* error, having made no external call and left last_run_info alone.
C4_RejectedAtBoundary ==
    \A q \in {"manual", "fetch"} :
        (req[q] # NoRequest /\ OutsideRange(req[q])) =>
            /\ response[q] = 400
            /\ calls[q] = ZeroCalls
            /\ ~wrote[q]

\* C5 (as claimed): every page of the store has a category and a priority of
\* the vocabulary.
C5_Vocabulary ==
    \A i \in DOMAIN store :
        /\ store[i].RootCause[1] \in Categories
        /\ store[i].Priority[1] \in Priorities

\* C9: add_to_notion never raises and returns a boolean; one call makes at
\* most one create call, none when Notion is not configured, and returns
\* true exactly when the create call succeeded (the page is in the store).
C9_AppendContained ==
    [][\A r \in Runners :
          idx'[r] = idx[r] + 1 =>
              LET dCreate == calls'[r].create - calls[r].create
                  dTrue == appended'[r] - appended[r]
              IN  /\ calls'[r].append = calls[r].append + 1
                  /\ caught'[r] = caught[r]
                  /\ dCreate \in {0, 1}
                  /\ dTrue \in {0, 1}
                  /\ dTrue <= dCreate
                  /\ Len(store') = Len(store) + dTrue
                  /\ processed'[r] = processed[r] + dTrue
                  /\ ~notion => dCreate = 0 /\ dTrue = 0]_vars

\* A run whose create call failed: add_to_notion returned false.
C9_Witness ==
    \E r \in Runners :
        /\ calls[r].append = 1 /\ calls[r].create = 1
        /\ appended[r] = 0 /\ caught[r] = 0

TitleCount(t) == Cardinality({i \in DOMAIN store : store[i].Title = t})

\* C10: nothing deduplicates by message: the store holds one page for every
\* add_to_notion call that returned true, so a message appended by two runs
\* is held twice.
C10_AtLeastOnce ==
    /\ \A i \in DOMAIN store : store[i].Title \in DOMAIN created
    /\ \A t \in DOMAIN created : TitleCount(t) = created[t]

\* The scheduled and the manual run are both in step 2 and the store holds
\* two pages for the same message.
C10_Witness ==
    /\ pc["scheduled"] = "step2" /\ pc["manual"] = "step2"
    /\ appended["scheduled"] = 1 /\ appended["manual"] = 1
    /\ \E t \in DOMAIN created : TitleCount(t) = 2

---------------------------------------------------------------------------
(* Properties of the step-2 loop *)

\* C3: step 2 attempts every fetched message once, in fetch order, whatever
\* failed before: the messages attempted so far are the first idx - 1 of
\* `emails`, each classified and given to add_to_notion; a run that returns
\* from step 3 has attempted them all, reports as emails_processed the number
\* of add_to_notion calls that returned true, and
\* 0 <= emails_processed <= emails_found <= 50.
C3_LoopCounts ==
    \A r \in Runners :
        /\ attempts[r] = [k \in 1..(idx[r] - 1) |-> emails[r][k].id]
        /\ calls[r].classify = idx[r] - 1
        /\ calls[r].append = idx[r] - 1
        /\ (pc[r] = "returned" /\ ~Step1Raised(r)) =>
              /\ idx[r] = Len(emails[r]) + 1
              /\ result[r].value.emails_found = Len(emails[r])
              /\ result[r].value.emails_processed = appended[r]
              /\ 0 <= result[r].value.emails_processed
              /\ result[r].value.emails_processed <= result[r].value.emails_found
              /\ result[r].value.emails_found <= maxResults

\* A run over a mailbox larger than the cap, in which every classification
\* failed and some appends failed, returned: 50 found, fewer processed.
C3_Witness ==
    \E r \in Runners :
        /\ pc[r] = "returned"
        /\ Len(mailbox) > maxResults
        /\ result[r].value.emails_found = maxResults
        /\ result[r].value.emails_processed \in 1..(maxResults - 1)
        /\ calls[r].llm = maxResults
        /\ calls[r].create = maxResults

---------------------------------------------------------------------------
(* Properties of classify_issue *)

RECURSIVE AfterNewline(_)
AfterNewline(s) ==
    IF s = <<>> THEN <<>>
    ELSE IF Head(s) = NL THEN Tail(s) ELSE AfterNewline(Tail(s))

\* The text after the first label of a line, if the line has one.
RECURSIVE AfterLabel(_, _)
AfterLabel(labels, line) ==
    IF line = <<>> THEN <<>>
    ELSE IF Head(line) \in labels THEN <<Strip(Tail(line))>>
    ELSE AfterLabel(labels, Tail(line))

\* The text of the first line that starts with a label (anchored) or holds
\* one: <<>> when there is no such line.
RECURSIVE FirstLabelled(_, _, _)
FirstLabelled(labels, s, anchored) ==
    LET line == UpToNewline(s)
        found == IF anchored
                 THEN IF LStrip(line) # <<>> /\ Head(LStrip(line)) \in labels
                      THEN <<Strip(Tail(LStrip(line)))>> ELSE <<>>
                 ELSE AfterLabel(labels, line)
    IN  IF found # <<>> THEN found
        ELSE IF NL \in {s[i] : i \in DOMAIN s} THEN FirstLabelled(labels, AfterNewline(s), anchored)
        ELSE <<>>

\* What the claim allows for a field: the text of its first labelled line,
\* under either reading of "line"; the default when no line is labelled; and
\* either of the two when the labelled line has no text.
Claimed(labels, s, default) ==
    LET readings == {FirstLabelled(labels, s, TRUE), FirstLabelled(labels, s, FALSE)}
    IN  UNION {IF f = <<>> THEN {default}
               ELSE IF f[1] = <<>> THEN {<<>>, default}
               ELSE {f[1]} : f \in readings}

\* C6 (as claimed): each field of classify_issue's result is the text of the
\* first line of the completion labelled for it, or its default (Other,
\* Medium, subject) when there is none; all three are the defaults when the
\* request raises, and without a client they are the defaults and no request
\* is made.
C6_FieldDefaults ==
    classified # NoClassification =>
        /\ ~classified.raised
        /\ ~client => /\ classified.value = DefaultClassification(TicketSubject)
                      /\ classified.llm_calls = 0
        /\ (client /\ classified.given.raised) =>
               classified.value = DefaultClassification(TicketSubject)
        /\ (client /\ ~classified.given.raised) =>
               /\ classified.value.category \in Claimed(CategoryLabels, llm_content, Other)
               /\ classified.value.priority \in Claimed(PriorityLabels, llm_content, Medium)
               /\ classified.value.summary \in Claimed(SummaryLabels, llm_content, TicketSubject)

---------------------------------------------------------------------------
(* Properties of send_slack_digest and get_notion_summary *)

WasNotified == notified.given # NotGiven

\* C7: send_slack_digest never raises; it returns true exactly when the
\* webhook is configured, the summary carries no error and the one POST was
\* answered 200; without a webhook, or given an error summary, it returns
\* false and posts nothing.
C7_NotifyContained ==
    WasNotified =>
        /\ ~notified.raised
        /\ notified.ret \in BOOLEAN
        /\ notified.posts \in {0, 1}
        /\ notified.ret <=> /\ webhook
                            /\ "error" \notin DOMAIN notified.given
                            /\ notified.posts = 1
                            /\ notified.post = HTTP_OK
        /\ (~webhook \/ "error" \in DOMAIN notified.given) =>
               /\ ~notified.ret
               /\ notified.posts = 0

\* An error summary given with a webhook configured: false, nothing posted.
C7_Witness ==
    /\ webhook
    /\ notified.given = ErrorSummary
    /\ ~notified.ret
    /\ notified.posts = 0

WasSummarized == "total" \in DOMAIN summarized.value

CategoriesOf(results) ==
    {results[i].RootCause[1] : i \in {j \in DOMAIN results : results[j].RootCause # <<>>}}
PrioritiesOf(results) ==
    {results[i].Priority[1] : i \in {j \in DOMAIN results : results[j].Priority # <<>>}}

\* The titles of the titled high-priority pages, in the order of the pages.
HighTitles(results) ==
    LET high == SelectSeq(results, LAMBDA page : page.Priority = <<High>> /\ page.Title # <<>>)
    IN  [i \in 1..Len(high) |-> high[i].Title[1]]

ExactCounts ==
    /\ summarized.value.total = Len(query_results)
    /\ summarized.value.by_category =
          [c \in CategoriesOf(query_results) |->
              Cardinality({i \in DOMAIN query_results : query_results[i].RootCause = <<c>>})]
    /\ summarized.value.by_priority =
          [p \in PrioritiesOf(query_results) |->
              Cardinality({i \in DOMAIN query_results : query_results[i].Priority = <<p>>})]

\* C8 (as claimed): the summary of N pages has total N, the exact count of
\* each category and priority, and the titles of the high-priority pages in
\* source order, capped at 5.
C8_SummaryCapped ==
    WasSummarized =>
        /\ ExactCounts
        /\ summarized.value.high_priority = Take(HighTitles(query_results), DisplayMax)

\* C8 (amended): the summary of N pages has total N, the exact count of each
\* category and priority among the pages that have one, and the titles of all
\* titled high-priority pages in source order, however many; the digest
\* posted for it shows the first 5 of them.
C8_SummaryExact ==
    WasSummarized =>
        /\ ExactCounts
        /\ summarized.value.high_priority = HighTitles(query_results)
        /\ (notified.given = summarized.value /\ notified.posts = 1) =>
               notified.message.high_priority_lines =
                   Take(HighTitles(query_results), DisplayMax)

\* Six titled high-priority pages: all six in the summary, five in the digest.
C8_Witness ==
    /\ WasSummarized
    /\ Len(summarized.value.high_priority) = DisplayMax + 1
    /\ notified.posts = 1
    /\ Len(notified.message.high_priority_lines) = DisplayMax

---------------------------------------------------------------------------
(* Properties of step 3 *)

\* Run r has come back from step 3.
PastStep3(r) == PastStep1(r) /\ pc[r] # "step2" /\ ~Step1Raised(r)

\* C11: step 3 leaves the counts of step 2 as they are: a run that returns
\* from step 3 reports the number of fetched messages and the count the loop
\* ended with, whatever the query and the webhook did; digest_sent is true
\* only when the query gave a summary without error and send_slack_digest
\* returned true on its one POST; send_slack_digest is not called on an
\* error summary (Notion not configured, or the query raised).
C11_Step3KeepsCounts ==
    \A r \in Runners :
        PastStep3(r) =>
            /\ ~result[r].raised
            /\ result[r].value.emails_found = Len(emails[r])
            /\ result[r].value.emails_processed = processed[r]
            /\ processed[r] = appended[r]
            /\ calls[r].query = IF notion THEN 1 ELSE 0
            /\ calls[r].digest \in {0, 1}
            /\ calls[r].digest = 1 => notion
            /\ calls[r].post <= calls[r].digest
            /\ result[r].value.digest_sent =>
                  /\ notion /\ webhook
                  /\ calls[r].digest = 1
                  /\ calls[r].post = 1

\* A run that appended a message and whose query then raised: the count is
\* reported, send_slack_digest was not called and digest_sent is false.
C11_Witness ==
    \E r \in Runners :
        /\ pc[r] = "returned"
        /\ PastStep3(r)
        /\ notion /\ webhook
        /\ calls[r].query = 1
        /\ calls[r].digest = 0
        /\ result[r].value.emails_processed >= 1
        /\ ~result[r].value.digest_sent

---------------------------------------------------------------------------
(* Properties of fetch_customer_emails *)

WasFetched == fetched.list # "none"

\* The messages the list call answers with: those inside the window.
Listed == SelectSeq(mailbox, LAMBDA m : m.age < fetched.hours)

\* Position in the mailbox of the message with this id.
PositionOf(id) == CHOOSE k \in DOMAIN mailbox : mailbox[k].id = id

\* C12: fetch_customer_emails never raises; when the list call raises it
\* returns the empty list; otherwise it returns one dict for every listed
\* message whose extraction succeeded and none for the others, in the order
\* of the list, each with the message's subject and the first 500 characters
\* of its body.
C12_FetchContained ==
    WasFetched =>
        LET value == fetched.value
            ids == {value[i].id : i \in DOMAIN value}
        IN  /\ ~fetched.raised
            /\ fetched.list = "raise" => value = <<>>
            /\ fetched.list = "ok" =>
                  /\ ids = {Listed[i].id : i \in {j \in DOMAIN Listed : Listed[j].readable}}
                  /\ Len(value) = Cardinality(ids)
                  /\ \A i, j \in DOMAIN value :
                        i < j => PositionOf(value[i].id) < PositionOf(value[j].id)
                  /\ \A i \in DOMAIN value :
                        LET m == mailbox[PositionOf(value[i].id)] IN
                        /\ value[i].subject = m.subject
                        /\ value[i].body <= BodyMax
                        /\ value[i].body = IF m.body > BodyMax THEN BodyMax ELSE m.body

\* Of three listed messages the second could not be extracted: the first and
\* the third are returned, the third cut to 500 characters.
C12_Witness ==
    /\ WasFetched
    /\ fetched.list = "ok"
    /\ Len(Listed) = 3
    /\ ~Listed[2].readable
    /\ Listed[3].body > BodyMax
    /\ Len(fetched.value) = 2
    /\ fetched.value[2].id = 3
    /\ fetched.value[2].body = BodyMax

---------------------------------------------------------------------------
(* Properties of last_run_info *)

\* Run r hands its result to its trigger in this step.
Returns(r) == pc[r] = "returned" /\ pc'[r] = "idle"

SuccessOf(r) == IF r = "manual" THEN "Success" ELSE "Success (Scheduled)"

\* C13 (as claimed): a trigger whose run_full_pipeline call returns replaces
\* last_run_info by its success status and the run's emails_processed, also
\* when the result carries the error of a failed fetch; the status is set to
\* an error only by a trigger whose run_full_pipeline call raised; and
\* last_run_info changes only when a run comes back, so that it is that of
\* the run that came back last.
C13_LastRunInfo ==
    [][/\ \A r \in Runners :
             (Returns(r) /\ ~result[r].raised) =>
                 last_run_info' = [timestamp |-> "now", status |-> SuccessOf(r),
                                   emails_processed |-> result[r].value.emails_processed]
       /\ (last_run_info' # last_run_info /\ last_run_info'.status = "Error") =>
             \E r \in Runners : Returns(r) /\ result[r].raised
       /\ last_run_info' # last_run_info => \E r \in Runners : Returns(r)]_vars

====
